---- MODULE Spec2Model ----
(***************************************************************************)
(* Model of the DerivTrader gateway: the broker connector (DerivAPI), the  *)
(* per-client session registry (ClientManager), the downstream WebSocket   *)
(* fan-out of registerRoutes, and the in-memory trade store (MemStorage).  *)
(***************************************************************************)
EXTENDS Integers, Sequences, FiniteSets, TLC

(* ------------------------------ bounds -------------------------------- *)

\* WebSocket objects one connector may create in SpecConn
MaxSockets == 7
\* generateRequestId draws from 0 .. MaxReqId (the code: 0 .. 999999999)
MaxReqId == 2
\* client accounts known to the session registry
MaxClients == 2
\* DerivAPI objects the registry may construct in SpecReg
MaxConns == 2
\* WebSocket objects one registry connector may create in SpecReg
MaxRegSockets == 2
\* trades either store may hold in SpecTwin
MaxTwinTrades == 1
\* trades MemStorage may hold in SpecStore
MaxTrades == 2
\* downstream WebSocket clients that may connect in SpecHub
MaxObservers == 2
\* messages recorded per downstream client in SpecHub
MaxInbox == 2
\* market prices range over 0 .. MaxPrice
MaxPrice == 2
\* stakes range over 0.01 .. MaxStake / 100 in SpecPayout
MaxStake == 100
\* DerivAPI objects the registry may construct in SpecOrder
MaxOrderConns == 1
\* trades placeTradeForClient may persist in SpecOrder
MaxOrders == 2
\* WebSocket objects the owner's own connect() calls may create in SpecDial
MaxDials == 2
\* WebSocket objects one connector may create in SpecFrame
MaxFrameSockets == 2
\* inbound frames whose handling may fail in SpecFrame
MaxDropped == 2
\* trades the routes may store in SpecPublish
MaxPublishTrades == 1
\* WebSocket objects one connector may create in SpecRetry
MaxRetrySockets == 4
\* DerivAPI objects the registry may construct in SpecBalance
MaxBalanceConns == 1
\* users MemStorage may hold in SpecBalance
MaxUsers == 2
\* DerivAPI objects the registry may construct in SpecRoute
MaxRouteConns == 1
\* DerivAPI objects the registry may construct in SpecStale
MaxStaleConns == 2
\* DerivAPI objects the registry may construct in SpecSession
MaxSessionConns == 1
\* WebSocket objects one registry connector may create in SpecSession
MaxSessionSockets == 6

(* ---------------------------- constants ------------------------------- *)

maxReconnectAttempts == 5
\* milliseconds
reconnectDelay == 1000

Symbols == {"frxEURUSD", "frxGBPUSD"}
ReqIds == 0 .. MaxReqId
\* Map.get of a missing key: undefined
NoId == -1
\* a null column of a Trade
Null == -100
\* a field the request body does not carry: undefined
Missing == -200
\* parseFloat of something that is no number
NaN == -300

ClientIds == 1 .. MaxClients
Observers == 1 .. MaxObservers
\* A number is kept as its count of 0.00001; the simulated prices:
Prices == 0 .. MaxPrice
\* the quotes of the broker's ticks: 1.08547 and 1.0855
TickQuotes == {108547, 108550}
\* the demo markets of MemStorage (one of the three)
DemoSymbols == {"EUR/USD"}
MarketSymbols == DemoSymbols \cup Symbols

\* A decimal text: the digits of units, the last `decimals` of them after
\* the point ("1.0855" is 10855 with 4 decimals).
DecimalText(units, decimals) == [units |-> units, decimals |-> decimals]
\* Map.get of a missing market: undefined
NoMarket == DecimalText(0, -1)

\* Number.prototype.toFixed(5)
toFixed5(n) == DecimalText(n, 5)

\* Number.prototype.toString: the shortest text, without trailing zeros.
RECURSIVE shortest(_, _)
shortest(n, k) ==
    IF k > 0 /\ n % 10 = 0 THEN shortest(n \div 10, k - 1)
    ELSE DecimalText(n, k)

toString(n) == shortest(n, 5)

\* parseFloat of a decimal text
textValue(t) == t.units * 10 ^ (5 - t.decimals)

VARIABLES
    conn,               \* the DerivAPI object under test in SpecConn
    call,               \* the call or event handled by the last step
    result,             \* what the last call returned or threw
    apis,               \* the DerivAPI objects connectClient has constructed
    owner,              \* the userId captured by each object's listeners
    clientAPIs,         \* ClientManager.clientAPIs: clientId -> object, 0 if absent
    activeConnections,  \* ClientManager.activeConnections: "true", "false", "none"
    trades,             \* MemStorage.trades: trade id -> Trade, ids 1 .. Len
    currentTradeId,     \* MemStorage.currentTradeId
    users,              \* MemStorage.users: user id -> balance, ids 1 .. Len
    db,                 \* the trades and markets tables of DatabaseStorage
    markets,            \* MemStorage.markets: symbol -> currentPrice, or NoMarket
    marketIds,          \* MemStorage.markets: symbol -> id, 0 if absent
    clients,            \* registerRoutes' Set of downstream WebSockets
    readyState,         \* each downstream WebSocket's readyState
    inbox,              \* the message types each downstream client received
    sent,               \* the message the last step sent downstream, if any
    microtasks          \* promise continuations queued in the current turn

connVars == <<conn>>
regVars == <<apis, owner, clientAPIs, activeConnections>>
storeVars == <<trades, currentTradeId>>
userVars == <<users>>
dbVars == <<db>>
hubVars == <<markets, marketIds, clients, readyState, inbox, sent, microtasks>>
vars == <<conn, call, result, apis, owner, clientAPIs, activeConnections,
          trades, currentTradeId, users, db, markets, marketIds, clients, readyState, inbox,
          sent, microtasks>>

\* What a step of one component leaves alone in the others.  An event
\* handler of the connector returns nothing to a caller.
ConnFrame ==
    /\ result' = "none"
    /\ UNCHANGED <<regVars, storeVars, userVars, dbVars, hubVars>>
RegFrame == UNCHANGED <<connVars, storeVars, userVars, dbVars, hubVars>>
StoreFrame == UNCHANGED <<connVars, regVars, userVars, dbVars, hubVars>>
HubFrame == UNCHANGED <<connVars, regVars, storeVars, userVars, dbVars, result>>

\* The method called, or the event delivered, with its arguments.
Call(op, sym, id) == [op |-> op, sym |-> sym, id |-> id]

(* ------------------------- DerivAPI (connector) ----------------------- *)

\* One entry of what a step wrote to the transport or emitted to listeners.
Sent(name, sym, id) == [kind |-> "send", name |-> name, sym |-> sym, id |-> id]
Emitted(name) == [kind |-> "emit", name |-> name, sym |-> "", id |-> NoId]
\* A setTimeout call of the step, with its delay.
Scheduled(delay) ==
    [kind |-> "timer", name |-> "setTimeout", sym |-> "", id |-> delay]

\* new DerivAPI(config): the field initialisers and the constructor.
NewDerivAPI(token) ==
    [ apiToken          |-> token,
      ws                |-> 0,
      sockets           |-> <<>>,
      isConnected       |-> FALSE,
      reconnectAttempts |-> 0,
      subscriptions     |-> [s \in Symbols |-> NoId],
      timers            |-> 0,
      exhausted         |-> 0,
      closes            |-> 0,
      issued            |-> {},
      dropped           |-> 0,
      log               |-> <<>> ]

\* A new step starts with nothing written and nothing emitted.
Begin(d) == [d EXCEPT !.log = <<>>]

emit(d, name) ==
    LET e == [d EXCEPT !.log = Append(@, Emitted(name))]
    IN  IF name = "max_reconnect_reached"
        THEN [e EXCEPT !.exhausted = @ + 1]
        ELSE e

\* send: written only when this.ws is set and OPEN, otherwise logged and dropped.
send(d, name, sym, id) ==
    IF d.ws # 0 /\ d.sockets[d.ws] = "OPEN"
    THEN [d EXCEPT !.log = Append(@, Sent(name, sym, id))]
    ELSE d

authorize(d) ==
    IF ~d.apiToken THEN d ELSE send(d, "authorize", "", NoId)

\* connect(): a new WebSocket replaces this.ws; its handlers are attached.
connect(d) ==
    [d EXCEPT !.sockets = Append(@, "CONNECTING"),
              !.ws = Len(d.sockets) + 1]

\* reconnectDelay * Math.pow(2, reconnectAttempts - 1), after the increment
delayOf(attempts) == reconnectDelay * 2 ^ (attempts - 1)

\* Faulty variant: the retry budget is compared with <= instead of <.
handleReconnectOffByOne(d) ==
    IF d.reconnectAttempts <= maxReconnectAttempts
    THEN [d EXCEPT !.reconnectAttempts = @ + 1, !.timers = @ + 1,
                   !.log = Append(@, Scheduled(delayOf(d.reconnectAttempts + 1)))]
    ELSE emit(d, "max_reconnect_reached")

\* Faulty variant: the delay grows by reconnectDelay per attempt.
handleReconnectLinear(d) ==
    IF d.reconnectAttempts < maxReconnectAttempts
    THEN [d EXCEPT !.reconnectAttempts = @ + 1, !.timers = @ + 1,
                   !.log = Append(@, Scheduled(reconnectDelay
                                                 * (d.reconnectAttempts + 1)))]
    ELSE emit(d, "max_reconnect_reached")

handleReconnect(d) ==
    IF d.reconnectAttempts < maxReconnectAttempts
    THEN [d EXCEPT !.reconnectAttempts = @ + 1, !.timers = @ + 1,
                   !.log = Append(@, Scheduled(delayOf(d.reconnectAttempts + 1)))]
    ELSE emit(d, "max_reconnect_reached")

\* Faulty variant: the open handler does not reset reconnectAttempts.
onOpenKeepsAttempts(d) ==
    authorize(emit([d EXCEPT !.isConnected = TRUE,
                             !.closes = 0], "connected"))

\* Faulty variant: the open handler does not call authorize().
onOpenSkipsAuthorize(d) ==
    emit([d EXCEPT !.isConnected = TRUE,
                   !.reconnectAttempts = 0,
                   !.closes = 0], "connected")

\* ws.on('open')
onOpen(d) ==
    authorize(emit([d EXCEPT !.isConnected = TRUE,
                             !.reconnectAttempts = 0,
                             !.closes = 0], "connected"))

\* ws.on('close')
onClose(d) ==
    handleReconnect(emit([d EXCEPT !.isConnected = FALSE,
                                   !.closes = @ + 1], "disconnected"))

subscribeToTicks(d, symbol, reqId) ==
    send([d EXCEPT !.subscriptions[symbol] = reqId,
                   !.issued = @ \cup {reqId}], "ticks", symbol, reqId)

\* `if (reqId)`: undefined and 0 are both falsy.
unsubscribeFromTicks(d, symbol) ==
    LET reqId == d.subscriptions[symbol]
    IN  IF reqId # NoId /\ reqId # 0
        THEN [send(d, "forget", "", reqId) EXCEPT !.subscriptions[symbol] = NoId]
        ELSE d

\* ws.close() on the socket object: CONNECTING and OPEN sockets start closing.
wsClose(state) ==
    IF state \in {"CONNECTING", "OPEN"} THEN "CLOSING" ELSE state

disconnect(d) ==
    IF d.ws # 0
    THEN [d EXCEPT !.sockets[d.ws] = wsClose(@), !.ws = 0]
    ELSE d

\* The msg_type values handleMessage knows, one that it does not know, and
\* "" for a frame without msg_type.
MsgTypes == {"tick", "authorize", "active_symbols", "buy"}
OtherMsgTypes == {"ping", ""}

\* An inbound frame: text that is no JSON, the JSON text null, or a JSON
\* object with its msg_type, with or without an error member, and with or
\* without the member its msg_type names (tick, authorize, ..., buy).
Frame(json, msgType, error, payload) ==
    [json |-> json, msg_type |-> msgType, error |-> error, payload |-> payload]
Frames ==
    {Frame("invalid", "", FALSE, FALSE), Frame("null", "", FALSE, FALSE)}
        \cup {Frame("object", m, e, p) :
                   m \in MsgTypes \cup OtherMsgTypes,
                   e \in BOOLEAN, p \in BOOLEAN}

\* The event handleMessage emits for a msg_type.
EventOf(msgType) ==
    CASE msgType = "tick" -> "tick"
      [] msgType = "authorize" -> "authorized"
      [] msgType = "active_symbols" -> "symbols"
      [] msgType = "buy" -> "trade_result"

\* handleMessage: msg_type is looked at first, response.error last.
handleMessage(d, response) ==
    IF response.msg_type \in MsgTypes THEN emit(d, EventOf(response.msg_type))
    ELSE IF response.error THEN emit(d, "api_error")
    ELSE d

\* The 'tick' listener of registerRoutes reads tickData.tick.symbol: a
\* TypeError when the frame has no tick member.  The other listeners test
\* the member before they read it.
listenerThrows(response) ==
    response.msg_type = "tick" /\ ~response.payload

\* JSON.parse throws on text that is no JSON; handleMessage throws on null
\* (response.msg_type), and when a listener throws inside emit.
handlingThrows(frame) ==
    \/ frame.json = "invalid"
    \/ frame.json = "null"
    \/ listenerThrows(frame)

\* Faulty variant: the error is taken for the end of the connection.
caughtDropsConnection(d) ==
    [d EXCEPT !.dropped = @ + 1, !.isConnected = FALSE]

\* The catch block of the message handler: console.error, nothing else.
caught(d) == [d EXCEPT !.dropped = @ + 1]

\* ws.on('message')
onMessage(d, frame) ==
    IF frame.json # "object" THEN caught(d)
    ELSE IF listenerThrows(frame) THEN caught(handleMessage(d, frame))
    ELSE handleMessage(d, frame)

\* The messages of the errors the two order methods throw.
Unauthorized == "API token required for trading"
NotConnected == "Client not connected to Deriv API"

\* Faulty variant: the order is built and sent without a look at the token.
placeTradeNeverThrows(d) == FALSE

\* placeTrade throws before anything is sent when no apiToken is configured.
placeTradeThrows(d) == ~d.apiToken

\* Otherwise the buy request goes to send(), and the promise resolves.
placeTrade(d, symbol) ==
    IF placeTradeThrows(d) THEN d ELSE send(d, "buy", symbol, NoId)

(* ------------------------ MemStorage (trades) ------------------------- *)

\* Prices and amounts a request may carry (decimal strings, by their value).
ExitPrices == {1}
Payouts == {2}
Profits == {-1, 0, 1}
\* The bodies of a close request: all three fields, or none of them.
CloseBodies ==
    {<<e, p, q>> : e \in ExitPrices, p \in Payouts, q \in Profits}
        \cup {<<Missing, Missing, Missing>>}
\* InsertTrade.status is optional free text; "" stands for an absent status.
InsertStatuses == {"", "open", "won", "lost"}

\* The MemStorage constructor, trade part.
NewMemStorage ==
    /\ trades = <<>>
    /\ currentTradeId = 1
    /\ users = <<>>

parseFloat(x) == IF x \in {Missing, Null, NaN} THEN NaN ELSE x

\* createUser: the id is currentUserId++ (the number of users plus one, as
\* no user is ever deleted), the balance "10000.00".
InitialBalance == DecimalText(1000000, 2)
createUser == users' = Append(users, InitialBalance)

\* getUser(id) of an id the map does not hold: undefined
NoUser == DecimalText(0, -1)
getUser(id) == IF id \in DOMAIN users THEN users[id] ELSE NoUser

\* updateUserBalance: nothing happens when the map does not hold the user.
updateUserBalance(userId, newBalance) ==
    IF getUser(userId) # NoUser
    THEN users' = [users EXCEPT ![userId] = newBalance]
    ELSE UNCHANGED users

\* NaN > 0 is false.
GreaterThanZero(x) == x # NaN /\ x > 0

\* The InsertTrade a request of the trading panel carries, but for its status.
InsertTrade(userId, status) ==
    [ userId       |-> userId,
      symbol       |-> "EUR/USD",
      tradeType    |-> "CALL",
      stake        |-> 1,
      duration     |-> 5,
      durationType |-> "minutes",
      status       |-> status ]

\* The Trade object createTrade builds for an InsertTrade.
NewTrade(id, insertTrade) ==
    [ id           |-> id,
      userId       |-> insertTrade.userId,
      symbol       |-> insertTrade.symbol,
      tradeType    |-> insertTrade.tradeType,
      stake        |-> insertTrade.stake,
      exitPrice    |-> Null,
      duration     |-> insertTrade.duration,
      durationType |-> insertTrade.durationType,
      status       |-> IF insertTrade.status = "" THEN "open"
                       ELSE insertTrade.status,
      payout       |-> Null,
      profit       |-> Null,
      closedAt     |-> Null ]

createTrade(insertTrade) ==
    /\ trades' = Append(trades, NewTrade(currentTradeId, insertTrade))
    /\ currentTradeId' = currentTradeId + 1

\* { ...trade, ...updates } for the fields the updates carry.
Patched(trade, updates) ==
    [f \in DOMAIN trade |->
        IF f \in DOMAIN updates THEN updates[f] ELSE trade[f]]

updateTrade(tradeId, updates) ==
    /\ trades' = IF tradeId \in DOMAIN trades
                 THEN [trades EXCEPT ![tradeId] = Patched(@, updates)]
                 ELSE trades
    /\ UNCHANGED currentTradeId

\* Faulty variant: a profit of zero counts as won.
ClosedTradeZeroWins(trade, exitPrice, payout, profit) ==
    [trade EXCEPT !.exitPrice = exitPrice,
                  !.payout = payout,
                  !.profit = profit,
                  !.status = IF parseFloat(profit) # NaN /\ parseFloat(profit) >= 0
                             THEN "won" ELSE "lost",
                  !.closedAt = 1]

\* closedAt: new Date() is the date 1.
ClosedTrade(trade, exitPrice, payout, profit) ==
    [trade EXCEPT !.exitPrice = exitPrice,
                  !.payout = payout,
                  !.profit = profit,
                  !.status = IF GreaterThanZero(parseFloat(profit))
                             THEN "won" ELSE "lost",
                  !.closedAt = 1]

closeTrade(tradeId, exitPrice, payout, profit) ==
    /\ trades' = IF tradeId \in DOMAIN trades
                 THEN [trades EXCEPT ![tradeId] =
                          ClosedTrade(@, exitPrice, payout, profit)]
                 ELSE trades
    /\ UNCHANGED currentTradeId

(* ---------------- registerRoutes: markets and fan-out ----------------- *)

\* A message to the downstream clients: its type and the rows of its data.
Message(type, data) == [type |-> type, data |-> data]
NoMessage == Message("none", {})

\* One row of a message: a market's symbol and currentPrice.
Row(symbol, price) == [symbol |-> symbol, currentPrice |-> price]

\* Array.from(this.markets.values()), by the two fields above.
getAllMarkets(m) ==
    {Row(s, m[s]) : s \in {x \in MarketSymbols : m[x] # NoMarket}}

\* MemStorage.initializeMarkets, and registerRoutes before any client.
NewHub ==
    /\ markets = [s \in MarketSymbols |->
                    IF s \in DemoSymbols THEN toFixed5(1) ELSE NoMarket]
    /\ marketIds = [s \in MarketSymbols |->
                      IF s \in DemoSymbols THEN 1 ELSE 0]
    /\ clients = {}
    /\ readyState = [o \in Observers |-> "NEW"]
    /\ inbox = [o \in Observers |-> <<>>]
    /\ sent = NoMessage
    /\ microtasks = <<>>

\* Faulty variant: the read completes in a later turn, as a database query
\* (DatabaseStorage.getAllMarkets) would, so other events run in between.
getAllMarketsResolvesLater == TRUE

\* MemStorage.getAllMarkets returns an already resolved promise, so its
\* .then callback runs before the event loop delivers any other event.
getAllMarketsResolvesInTurn == microtasks = <<>>

\* Faulty variant: only the first open client of the set is served.
broadcastToFirst(box, type) ==
    [o \in Observers |->
        IF /\ o \in clients /\ readyState[o] = "OPEN"
           /\ \A p \in clients : readyState[p] = "OPEN" => o <= p
        THEN Append(box[o], type) ELSE box[o]]

\* Faulty variant: every client of the set is served, open or not.
broadcastToSet(box, type) ==
    [o \in Observers |->
        IF o \in clients THEN Append(box[o], type) ELSE box[o]]

\* clients.forEach(client => readyState === OPEN && client.send(type))
broadcast(box, type) ==
    [o \in Observers |->
        IF o \in clients /\ readyState[o] = "OPEN"
        THEN Append(box[o], type) ELSE box[o]]

updateMarket(m, symbol, price) ==
    IF m[symbol] # NoMarket THEN [m EXCEPT ![symbol] = price] ELSE m

\* createMarket, as the 'symbols' handler calls it: currentPrice '0.00000',
\* stored under the symbol whether or not a market of that symbol exists.
createMarket(m, symbol) == [m EXCEPT ![symbol] = toFixed5(0)]

\* The id createMarket gives: this.markets.size + 1, stored under the symbol.
createMarketId(ids, symbol) ==
    [ids EXCEPT ![symbol] = Cardinality({s \in MarketSymbols : ids[s] # 0}) + 1]

\* markets.forEach(market => storage.createMarket(market)), for the ids.
RECURSIVE createMarketIds(_, _)
createMarketIds(ids, listing) ==
    IF listing = <<>> THEN ids
    ELSE createMarketIds(createMarketId(ids, Head(listing)), Tail(listing))

\* The orders in which the broker may list a set of symbols.
Listings(listed) ==
    {q \in [1 .. Cardinality(listed) -> listed] :
        \A i, j \in DOMAIN q : q[i] = q[j] => i = j}

\* The marketUpdate object of the tick handler.
marketUpdate(symbol, quote) == Row(symbol, toString(quote))

\* A broadcast step is recorded only while every inbox has room.
InboxRoom == \A o \in Observers : Len(inbox[o]) < MaxInbox

(* ------------------- DatabaseStorage (durable store) ------------------ *)
(* The trades and markets tables behind the query builder.  Decimal and   *)
(* timestamp columns are kept by their value, as in MemStorage above.     *)

\* MemStorage.getTradesByUser: the trades whose userId is the user's.
getTradesByUser(userId) == SelectSeq(trades, LAMBDA t : t.userId = userId)

\* MemStorage.getOpenTradesByUser: of those, the trades with status "open".
getOpenTradesByUser(userId) ==
    SelectSeq(trades, LAMBDA t : t.userId = userId /\ t.status = "open")

\* The tables hold what MemStorage starts with: no trade, the demo markets.
NewDatabaseStorage ==
    db = [ trades  |-> <<>>,
           markets |-> [s \in MarketSymbols |->
                          IF s \in DemoSymbols THEN toFixed5(1) ELSE NoMarket] ]

\* insert(trades).values({...tradeData, createdAt}).returning(): the id is
\* the next value of the serial column; status defaults to "open".
dbCreateTrade(d, insertTrade) ==
    [d EXCEPT !.trades = Append(@, NewTrade(Len(d.trades) + 1, insertTrade))]

\* update(trades).set(updates).where(eq(trades.id, tradeId))
dbUpdateTrade(d, tradeId, updates) ==
    IF tradeId \in DOMAIN d.trades
    THEN [d EXCEPT !.trades[tradeId] = Patched(@, updates)]
    ELSE d

\* update(trades).set({exitPrice, payout, profit, status, closedAt}).where(id)
dbCloseTrade(d, tradeId, exitPrice, payout, profit) ==
    IF tradeId \in DOMAIN d.trades
    THEN [d EXCEPT !.trades[tradeId] = ClosedTrade(@, exitPrice, payout, profit)]
    ELSE d

\* select().from(trades).where(eq(trades.userId, userId))
dbGetTradesByUser(d, userId) ==
    SelectSeq(d.trades, LAMBDA t : t.userId = userId)

\* select().from(trades).where(userId).where(status): the query builder
\* keeps one condition, and a second where() replaces the first.
dbGetOpenTradesByUser(d, userId) ==
    SelectSeq(d.trades, LAMBDA t : t.status = "open")

\* select().from(markets).where(eq(markets.symbol, symbol)): the first row
dbGetMarket(d, symbol) == d.markets[symbol]

\* update(markets).set({...updates, lastUpdate}).where(symbol)
dbUpdateMarket(d, symbol, price) ==
    [d EXCEPT !.markets = updateMarket(@, symbol, price)]

\* The insert fails on the unique constraint of markets.symbol.
dbCreateMarketThrows(d, symbol) == d.markets[symbol] # NoMarket

\* insert(markets).values({...marketData, lastUpdate}).returning()
dbCreateMarket(d, symbol) ==
    IF dbCreateMarketThrows(d, symbol) THEN d
    ELSE [d EXCEPT !.markets[symbol] = toFixed5(0)]

(* ---------------- ClientManager (session registry) -------------------- *)

\* ClientManager's field initialisers: two empty maps.
NewClientManager ==
    /\ apis = <<>>
    /\ owner = <<>>
    /\ clientAPIs = [u \in ClientIds |-> 0]
    /\ activeConnections = [u \in ClientIds |-> "none"]

\* The 'connected' and 'disconnected' listeners of connectClient, run for
\* the events one step emitted, in order.
RECURSIVE applyListeners(_, _, _)
applyListeners(active, userId, log) ==
    IF log = <<>> THEN active
    ELSE LET e == Head(log)
             a == IF e.kind = "emit" /\ e.name = "connected"
                  THEN [active EXCEPT ![userId] = "true"]
                  ELSE IF e.kind = "emit" /\ e.name = "disconnected"
                  THEN [active EXCEPT ![userId] = "false"]
                  ELSE active
         IN  applyListeners(a, userId, Tail(log))

\* The events connectClient attaches a listener for.
Listened == {"connected", "disconnected", "authorized", "trade_result"}

\* EventEmitter.emit throws the error of an 'error' event nobody listens
\* for.  Thrown out of an event callback it is an uncaught exception, and
\* no handler for those is installed: the process ends.
emitThrows(name) == name = "error" /\ name \notin Listened
Uncaught == "uncaughtException"

\* ws.on('error'): console.error, this.emit('error', error).
onError(d) == emit(d, "error")

\* Every object starts the step with nothing written and nothing emitted.
BeginAll(a) == [c \in DOMAIN a |-> Begin(a[c])]

\* connectClient: always a new DerivAPI, connect(), listeners, clientAPIs.set;
\* connect() catches its own errors, so the catch branch is never taken.
connectClient(userId, token) ==
    /\ apis' = Append(BeginAll(apis), connect(NewDerivAPI(token)))
    /\ owner' = Append(owner, userId)
    /\ clientAPIs' = [clientAPIs EXCEPT ![userId] = Len(apis) + 1]
    /\ UNCHANGED activeConnections
    /\ result' = "true"

\* Faulty variant: the active flag of the client is not deleted.
disconnectClientKeepsFlag(clientId) ==
    LET c == clientAPIs[clientId]
    IN  IF c # 0
        THEN /\ apis' = [BeginAll(apis) EXCEPT ![c] = disconnect(@)]
             /\ clientAPIs' = [clientAPIs EXCEPT ![clientId] = 0]
             /\ UNCHANGED <<owner, activeConnections>>
        ELSE /\ apis' = BeginAll(apis)
             /\ UNCHANGED <<owner, clientAPIs, activeConnections>>

disconnectClient(clientId) ==
    LET c == clientAPIs[clientId]
    IN  IF c # 0
        THEN /\ apis' = [BeginAll(apis) EXCEPT ![c] = disconnect(@)]
             /\ clientAPIs' = [clientAPIs EXCEPT ![clientId] = 0]
             /\ activeConnections' = [activeConnections EXCEPT ![clientId] = "none"]
             /\ UNCHANGED owner
        ELSE /\ apis' = BeginAll(apis)
             /\ UNCHANGED <<owner, clientAPIs, activeConnections>>

\* isClientConnected: this.activeConnections.get(clientId) || false
isClientConnected(clientId) == activeConnections[clientId] = "true"

\* getAllConnectedClients: the keys of activeConnections whose value is true.
getAllConnectedClients == {u \in ClientIds : activeConnections[u] = "true"}

\* The TradeRequest bodies of POST /api/clients/:clientId/trade used here;
\* the route does not validate the body, so amount may be missing.
OrderRequests ==
    { [symbol |-> "frxEURUSD", tradeType |-> "CALL", amount |-> 1,
       duration |-> 5, durationType |-> "m"],
      [symbol |-> "frxGBPUSD", tradeType |-> "PUT", amount |-> 2,
       duration |-> 1, durationType |-> "h"],
      [symbol |-> "frxGBPUSD", tradeType |-> "PUT", amount |-> Missing,
       duration |-> 2, durationType |-> "d"] }

\* Faulty variant: only the presence of the connector is checked.
notConnectedIgnoresFlag(clientId) == clientAPIs[clientId] = 0

\* !derivAPI || !this.activeConnections.get(clientId)
notConnected(clientId) ==
    clientAPIs[clientId] = 0 \/ activeConnections[clientId] # "true"

\* Faulty variant: the duration unit is stored as the request spells it.
orderInsertKeepsUnit(clientId, req) ==
    [ userId       |-> clientId,
      symbol       |-> req.symbol,
      tradeType    |-> req.tradeType,
      stake        |-> req.amount,
      duration     |-> req.duration,
      durationType |-> req.durationType,
      status       |-> "open" ]

\* The InsertTrade placeTradeForClient hands to storage.createTrade;
\* amount.toString() of a number is its decimal text, kept by its value.
orderInsert(clientId, req) ==
    [ userId       |-> clientId,
      symbol       |-> req.symbol,
      tradeType    |-> req.tradeType,
      stake        |-> req.amount,
      duration     |-> req.duration,
      durationType |-> IF req.durationType = "m" THEN "minutes"
                       ELSE IF req.durationType = "h" THEN "hours"
                       ELSE "days",
      status       |-> "open" ]

\* placeTradeForClient: the check, derivAPI.placeTrade, storage.createTrade;
\* whatever is thrown inside the try block is logged and thrown again.
placeTradeForClient(clientId, req) ==
    LET c == clientAPIs[clientId]
    IN  /\ UNCHANGED <<owner, clientAPIs, activeConnections>>
        /\ IF notConnected(clientId)
           THEN /\ result' = NotConnected
                /\ apis' = BeginAll(apis)
                /\ UNCHANGED storeVars
           ELSE IF placeTradeThrows(apis[c])
           THEN /\ result' = Unauthorized
                /\ apis' = BeginAll(apis)
                /\ UNCHANGED storeVars
           ELSE /\ apis' = [BeginAll(apis) EXCEPT ![c] = placeTrade(@, req.symbol)]
                /\ IF req.amount = Missing
                   THEN /\ result' = "TypeError"
                        /\ UNCHANGED storeVars
                   ELSE /\ result' = "trade"
                        /\ createTrade(orderInsert(clientId, req))

\* The balances an authorize reply reports here, in units of 0.00001:
\* 0, 1 and 1.5; Missing for a reply without an authorize member (an error
\* reply) or without a balance in it.
Balances == {0, 100000, 150000}
Reported == Balances \cup {Missing}

\* The null getClientBalance returns.
NullBalance == DecimalText(0, -2)

\* getClientBalance: user?.balance || null; no balance text is empty.
getClientBalance(clientId) ==
    IF getUser(clientId) = NoUser THEN NullBalance ELSE getUser(clientId)

\* updateClientBalance: authData.authorize && authData.authorize.balance is
\* falsy for a missing member and for the number 0.
updateClientBalance(clientId, balance) ==
    IF balance # Missing /\ balance # 0
    THEN updateUserBalance(clientId, toString(balance))
    ELSE UNCHANGED users

\* The symbols arrays the market-data routing is called with here.
SymbolLists == {<<>>, <<"frxGBPUSD">>, <<"frxEURUSD", "frxGBPUSD">>}
\* The request ids generateRequestId draws for them: 0 is falsy.
RouteIds == {0, 1}

\* Faulty variant: the active flag of the client is not looked at.
routedIgnoresFlag(clientId) == clientAPIs[clientId] # 0

\* derivAPI && this.activeConnections.get(clientId)
routed(clientId) ==
    clientAPIs[clientId] # 0 /\ activeConnections[clientId] = "true"

\* for (const symbol of symbols) await derivAPI.subscribeToTicks(symbol);
\* ids are the request ids generateRequestId draws, one per symbol.
RECURSIVE subscribeEach(_, _, _)
subscribeEach(d, symbols, ids) ==
    IF symbols = <<>> THEN d
    ELSE subscribeEach(subscribeToTicks(d, Head(symbols), Head(ids)),
                       Tail(symbols), Tail(ids))

\* for (const symbol of symbols) await derivAPI.unsubscribeFromTicks(symbol);
RECURSIVE unsubscribeEach(_, _)
unsubscribeEach(d, symbols) ==
    IF symbols = <<>> THEN d
    ELSE unsubscribeEach(unsubscribeFromTicks(d, Head(symbols)), Tail(symbols))

subscribeClientToMarketData(clientId, symbols, ids) ==
    /\ apis' = IF routed(clientId)
               THEN [BeginAll(apis) EXCEPT
                        ![clientAPIs[clientId]] = subscribeEach(@, symbols, ids)]
               ELSE BeginAll(apis)
    /\ UNCHANGED <<owner, clientAPIs, activeConnections>>
    /\ result' = "void"

unsubscribeClientFromMarketData(clientId, symbols) ==
    /\ apis' = IF routed(clientId)
               THEN [BeginAll(apis) EXCEPT
                        ![clientAPIs[clientId]] = unsubscribeEach(@, symbols)]
               ELSE BeginAll(apis)
    /\ UNCHANGED <<owner, clientAPIs, activeConnections>>
    /\ result' = "void"

(* ------------------- Number: IEEE 754 binary64 arithmetic -------------- *)
(* A natural number of any size is a sequence of bits, least significant  *)
(* first, without leading zeros; it is added and multiplied in limbs of   *)
(* 13 bits.  A positive double is its 53-bit significand and its          *)
(* exponent: the value is m * 2^e.                                        *)

Base == 2 ^ 13

Min(a, b) == IF a < b THEN a ELSE b
Max(a, b) == IF a < b THEN b ELSE a

RECURSIVE bitsOf(_)
bitsOf(n) == IF n = 0 THEN <<>> ELSE <<n % 2>> \o bitsOf(n \div 2)

RECURSIVE natOf(_)
natOf(b) == IF b = <<>> THEN 0 ELSE Head(b) + 2 * natOf(Tail(b))

zeros(k) == [i \in 1 .. k |-> 0]

trim(b) ==
    LET ones == {i \in 1 .. Len(b) : b[i] = 1}
    IN  IF ones = {} THEN <<>>
        ELSE SubSeq(b, 1, CHOOSE i \in ones : \A j \in ones : j <= i)

limbsOf(b) ==
    [i \in 1 .. (Len(b) + 12) \div 13 |->
        natOf(SubSeq(b, 13 * (i - 1) + 1, Min(13 * i, Len(b))))]

bitsFrom(l) ==
    trim([p \in 1 .. 13 * Len(l) |->
            (l[(p - 1) \div 13 + 1] \div 2 ^ ((p - 1) % 13)) % 2])

digit(l, i) == IF i \in 1 .. Len(l) THEN l[i] ELSE 0

\* Digits of any size, negative ones too, to limbs: the carries go upwards.
RECURSIVE carried(_, _, _)
carried(d, i, carry) ==
    IF i > Len(d)
    THEN IF carry = 0 THEN <<>>
         ELSE <<carry % Base>> \o carried(d, i, carry \div Base)
    ELSE <<(d[i] + carry) % Base>>
             \o carried(d, i + 1, (d[i] + carry) \div Base)

addBits(a, b) ==
    LET x == limbsOf(a)
        y == limbsOf(b)
    IN  bitsFrom(carried([i \in 1 .. Max(Len(x), Len(y)) |->
                             digit(x, i) + digit(y, i)], 1, 0))

\* a - b for a >= b
subBits(a, b) ==
    LET x == limbsOf(a)
        y == limbsOf(b)
    IN  bitsFrom(carried([i \in 1 .. Len(x) |-> x[i] - digit(y, i)], 1, 0))

\* Column k of a product: the limbs whose places add up to k, multiplied.
RECURSIVE column(_, _, _, _)
column(x, y, k, i) ==
    IF i > Len(x) THEN 0
    ELSE x[i] * digit(y, k - i + 1) + column(x, y, k, i + 1)

mulBits(a, b) ==
    LET x == limbsOf(a)
        y == limbsOf(b)
    IN  bitsFrom(carried([k \in 1 .. Len(x) + Len(y) |-> column(x, y, k, 1)],
                         1, 0))

shiftLeft(b, k) == zeros(k) \o b
shiftRight(b, k) == SubSeq(b, k + 1, Len(b))

\* Long division of limbs by a small d, from the top limb down: the
\* quotient's limbs and the remainder.
RECURSIVE divLimbs(_, _, _)
divLimbs(x, i, d) ==
    IF i > Len(x) THEN [q |-> <<>>, r |-> 0]
    ELSE LET top == divLimbs(x, i + 1, d)
             n == Base * top.r + x[i]
         IN  [q |-> <<n \div d>> \o top.q, r |-> n % d]

divSmall(b, d) ==
    LET res == divLimbs(limbsOf(b), 1, d)
    IN  [q |-> bitsFrom(res.q), r |-> res.r]

anyOne(b) == \E i \in 1 .. Len(b) : b[i] = 1

Double(m, e) == [m |-> m, e |-> e]

\* Round n * 2^e, n of more than 53 bits, to the nearest double, ties to
\* even; sticky tells that the exact value is a little above n * 2^e.
roundToDouble(n, e, sticky) ==
    LET sh == Len(n) - 53
        q == shiftRight(n, sh)
        up == /\ n[sh] = 1
              /\ \/ sticky
                 \/ anyOne(SubSeq(n, 1, sh - 1))
                 \/ q[1] = 1
        r == IF up THEN addBits(q, <<1>>) ELSE q
    IN  IF Len(r) > 53 THEN Double(shiftRight(r, 1), e + sh + 1)
        ELSE Double(r, e + sh)

\* A number of at most 53 bits is a double as it is.
exactDouble(n, e) == Double(zeros(53 - Len(n)) \o n, e - (53 - Len(n)))

toDouble(n, e) ==
    IF Len(n) > 53 THEN roundToDouble(n, e, FALSE) ELSE exactDouble(n, e)

\* parseFloat of a decimal text with two decimals, given as its cents:
\* the double nearest to cents / 100.
parseCents(cents) ==
    LET d == divSmall(shiftLeft(bitsOf(cents), 60), 100)
    IN  roundToDouble(d.q, -60, d.r # 0)

\* x * y
times(x, y) == toDouble(mulBits(x.m, y.m), x.e + y.e)

\* x - y for x > y
minus(x, y) ==
    LET e == Min(x.e, y.e)
    IN  toDouble(subBits(shiftLeft(x.m, x.e - e), shiftLeft(y.m, y.e - e)), e)

\* toFixed(2) of a double below 2^52, as the cents of the text: the n for
\* which n / 100 is nearest to x, the larger n of two.
toFixed2(x) ==
    natOf(shiftRight(addBits(mulBits(x.m, bitsOf(200)),
                             shiftLeft(<<1>>, -x.e)),
                     1 - x.e))

\* (parseFloat(stake) * 1.85).toFixed(2), stake and payout in cents
payoutOf(stake) == toFixed2(times(parseCents(stake), parseCents(185)))

\* (parseFloat(potentialPayout) - parseFloat(stakeAmount)).toFixed(2)
profitOf(payout, stake) ==
    toFixed2(minus(parseCents(payout), parseCents(stake)))

(* ------------------- SpecConn: one connector's life ------------------- *)
(* One DerivAPI object and the sockets it creates.  Its owner calls        *)
(* connect() once after construction (routes.ts:247, client-manager:35);   *)
(* disconnect, subscribe and unsubscribe may be called at any time.  A     *)
(* socket opens or closes as an event; the 'error' event that may precede  *)
(* a close is not part of this specification.                              *)

InitConn ==
    /\ \E token \in BOOLEAN : conn = NewDerivAPI(token)
    /\ call = Call("new", "", NoId)
    /\ result = "none"
    /\ NewClientManager
    /\ NewMemStorage
    /\ NewDatabaseStorage
    /\ NewHub

\* The owner calls connect() once, right after construction.
Connect ==
    /\ conn.sockets = <<>>
    /\ conn' = connect(Begin(conn))
    /\ call' = Call("connect", "", NoId)
    /\ ConnFrame

SocketOpen ==
    \E i \in 1 .. Len(conn.sockets) :
        /\ conn.sockets[i] = "CONNECTING"
        /\ conn' = onOpen([Begin(conn) EXCEPT !.sockets[i] = "OPEN"])
        /\ call' = Call("open", "", i)
        /\ ConnFrame

SocketClose ==
    \E i \in 1 .. Len(conn.sockets) :
        /\ conn.sockets[i] # "CLOSED"
        /\ conn' = onClose([Begin(conn) EXCEPT !.sockets[i] = "CLOSED"])
        /\ call' = Call("close", "", i)
        /\ ConnFrame

\* The setTimeout callback of handleReconnect.
ReconnectTimer ==
    /\ conn.timers > 0
    /\ Len(conn.sockets) < MaxSockets
    /\ conn' = connect([Begin(conn) EXCEPT !.timers = @ - 1])
    /\ call' = Call("timer", "", NoId)
    /\ ConnFrame

Disconnect ==
    /\ conn' = disconnect(Begin(conn))
    /\ call' = Call("disconnect", "", NoId)
    /\ ConnFrame

SubscribeToTicks ==
    \E symbol \in Symbols, reqId \in ReqIds :
        /\ conn' = subscribeToTicks(Begin(conn), symbol, reqId)
        /\ call' = Call("subscribeToTicks", symbol, reqId)
        /\ ConnFrame

UnsubscribeFromTicks ==
    \E symbol \in Symbols :
        /\ conn' = unsubscribeFromTicks(Begin(conn), symbol)
        /\ call' = Call("unsubscribeFromTicks", symbol, NoId)
        /\ ConnFrame

\* placeTrade called by the owner of the object, at any time.
PlaceTrade ==
    \E symbol \in Symbols :
        /\ conn' = placeTrade(Begin(conn), symbol)
        /\ call' = Call("placeTrade", symbol, NoId)
        /\ result' = IF placeTradeThrows(conn) THEN Unauthorized ELSE "void"
        /\ UNCHANGED <<regVars, storeVars, userVars, dbVars, hubVars>>

NextConn ==
    \/ Connect
    \/ SocketOpen
    \/ SocketClose
    \/ ReconnectTimer
    \/ Disconnect
    \/ SubscribeToTicks
    \/ UnsubscribeFromTicks
    \/ PlaceTrade

SpecConn == InitConn /\ [][NextConn]_vars

(* ------------- SpecDial: connect() called more than once ------------- *)
(* The same object, whose owner may call connect() again at any time, as  *)
(* the public method allows; subscriptions and orders are left out.       *)

\* A further connect() by the owner, whatever the state of the object.
ConnectAgain ==
    /\ conn.sockets # <<>>
    /\ Len(conn.sockets) < MaxDials
    /\ conn' = connect(Begin(conn))
    /\ call' = Call("connect", "", NoId)
    /\ ConnFrame

NextDial ==
    \/ Connect
    \/ ConnectAgain
    \/ SocketOpen
    \/ SocketClose
    \/ ReconnectTimer
    \/ Disconnect

SpecDial == InitConn /\ [][NextDial]_vars

(* ----------------- SpecFrame: frames from the broker ------------------ *)
(* The DerivAPI object of registerRoutes: it is connected once, its       *)
(* socket opens, receives frames and closes, it is dialled again after a  *)
(* reconnect delay, and symbols are subscribed at any time.               *)

FrameReconnectTimer ==
    /\ conn.timers > 0
    /\ Len(conn.sockets) < MaxFrameSockets
    /\ conn' = connect([Begin(conn) EXCEPT !.timers = @ - 1])
    /\ call' = Call("timer", "", NoId)
    /\ ConnFrame

\* The 'message' event of an open socket.
SocketMessage ==
    \E i \in 1 .. Len(conn.sockets), frame \in Frames :
        /\ conn.sockets[i] = "OPEN"
        /\ handlingThrows(frame) => conn.dropped < MaxDropped
        /\ conn' = onMessage(Begin(conn), frame)
        /\ call' = [op |-> "message", sym |-> "", id |-> i, frame |-> frame]
        /\ ConnFrame

NextFrame ==
    \/ Connect
    \/ SocketOpen
    \/ SocketClose
    \/ FrameReconnectTimer
    \/ SubscribeToTicks
    \/ SocketMessage

SpecFrame == InitConn /\ [][NextFrame]_vars

(* ------------------ SpecRetry: reconnecting, fairly ------------------- *)
(* One DerivAPI object, connected once by its owner, with the 'error'     *)
(* event of its sockets (nobody listens for it, on this object or on a    *)
(* registry's).  A timer that was set runs after its delay, whatever else *)
(* happens: weak fairness of the timer callback.  Nothing runs once the   *)
(* process has ended.                                                     *)

RetryConnect ==
    /\ result # Uncaught
    /\ Connect

RetrySocketOpen ==
    /\ result # Uncaught
    /\ SocketOpen

RetrySocketClose ==
    /\ result # Uncaught
    /\ SocketClose

RetryDisconnect ==
    /\ result # Uncaught
    /\ Disconnect

\* The 'error' event of a socket that is connecting or open.
RetrySocketError ==
    \E i \in 1 .. Len(conn.sockets) :
        /\ result # Uncaught
        /\ conn.sockets[i] \in {"CONNECTING", "OPEN"}
        /\ conn' = emit(Begin(conn), "error")
        /\ result' = IF emitThrows("error") THEN Uncaught ELSE "none"
        /\ call' = Call("error", "", i)
        /\ UNCHANGED <<regVars, storeVars, userVars, dbVars, hubVars>>

RetryReconnectTimer ==
    /\ result # Uncaught
    /\ conn.timers > 0
    /\ Len(conn.sockets) < MaxRetrySockets
    /\ conn' = connect([Begin(conn) EXCEPT !.timers = @ - 1])
    /\ call' = Call("timer", "", NoId)
    /\ ConnFrame

NextRetry ==
    \/ RetryConnect
    \/ RetrySocketOpen
    \/ RetrySocketClose
    \/ RetryDisconnect
    \/ RetrySocketError
    \/ RetryReconnectTimer

SpecRetry ==
    /\ InitConn
    /\ [][NextRetry]_vars
    /\ WF_vars(RetryReconnectTimer)

(* --------------------- SpecReg: the session registry ------------------ *)

InitReg ==
    /\ NewClientManager
    /\ conn = NewDerivAPI(FALSE)
    /\ call = Call("new", "", NoId)
    /\ result = "none"
    /\ NewMemStorage
    /\ NewDatabaseStorage
    /\ NewHub

\* POST /api/clients/connect: the route refuses an empty apiToken.
ConnectClient ==
    \E userId \in ClientIds :
        /\ Len(apis) < MaxConns
        /\ connectClient(userId, TRUE)
        /\ call' = Call("connectClient", "", userId)
        /\ RegFrame

\* POST /api/clients/:clientId/disconnect
DisconnectClient ==
    \E clientId \in ClientIds :
        /\ disconnectClient(clientId)
        /\ call' = Call("disconnectClient", "", clientId)
        /\ result' = "void"
        /\ RegFrame

\* One event of object c handled by the DerivAPI handler, then the listeners.
Deliver(c, d) ==
    /\ apis' = [BeginAll(apis) EXCEPT ![c] = d]
    /\ activeConnections' = applyListeners(activeConnections, owner[c], d.log)
    /\ UNCHANGED <<owner, clientAPIs>>
    /\ result' = "none"

RegSocketOpen ==
    \E c \in 1 .. Len(apis) : \E i \in 1 .. Len(apis[c].sockets) :
        /\ apis[c].sockets[i] = "CONNECTING"
        /\ Deliver(c, onOpen([Begin(apis[c]) EXCEPT !.sockets[i] = "OPEN"]))
        /\ call' = Call("open", "", c)
        /\ RegFrame

RegSocketClose ==
    \E c \in 1 .. Len(apis) : \E i \in 1 .. Len(apis[c].sockets) :
        /\ apis[c].sockets[i] # "CLOSED"
        /\ Deliver(c, onClose([Begin(apis[c]) EXCEPT !.sockets[i] = "CLOSED"]))
        /\ call' = Call("close", "", c)
        /\ RegFrame

RegReconnectTimer ==
    \E c \in 1 .. Len(apis) :
        /\ apis[c].timers > 0
        /\ Len(apis[c].sockets) < MaxRegSockets
        /\ Deliver(c, connect([Begin(apis[c]) EXCEPT !.timers = @ - 1]))
        /\ call' = Call("timer", "", c)
        /\ RegFrame

NextReg ==
    \/ ConnectClient
    \/ DisconnectClient
    \/ RegSocketOpen
    \/ RegSocketClose
    \/ RegReconnectTimer

SpecReg == InitReg /\ [][NextReg]_vars

(* --------------- SpecSession: the life of one session ----------------- *)
(* The registry and the sockets of its connectors, with the 'error' event *)
(* of a socket and with as many reconnects as the retry budget allows.    *)
(* Nothing runs once the process has ended.                               *)

Running == result # Uncaught

SessionConnectClient ==
    \E userId \in ClientIds :
        /\ Running
        /\ Len(apis) < MaxSessionConns
        /\ connectClient(userId, TRUE)
        /\ call' = Call("connectClient", "", userId)
        /\ RegFrame

SessionDisconnectClient ==
    /\ Running
    /\ DisconnectClient

SessionSocketOpen ==
    /\ Running
    /\ RegSocketOpen

SessionSocketClose ==
    /\ Running
    /\ RegSocketClose

\* The 'error' event of a socket that is connecting or open.
SessionSocketError ==
    \E c \in 1 .. Len(apis) : \E i \in 1 .. Len(apis[c].sockets) :
        /\ Running
        /\ apis[c].sockets[i] \in {"CONNECTING", "OPEN"}
        /\ apis' = [BeginAll(apis) EXCEPT ![c] = onError(@)]
        /\ activeConnections' =
               applyListeners(activeConnections, owner[c], apis'[c].log)
        /\ result' = IF emitThrows("error") THEN Uncaught ELSE "none"
        /\ call' = Call("error", "", c)
        /\ UNCHANGED <<owner, clientAPIs>>
        /\ RegFrame

SessionReconnectTimer ==
    \E c \in 1 .. Len(apis) :
        /\ Running
        /\ apis[c].timers > 0
        /\ Len(apis[c].sockets) < MaxSessionSockets
        /\ Deliver(c, connect([Begin(apis[c]) EXCEPT !.timers = @ - 1]))
        /\ call' = Call("timer", "", c)
        /\ RegFrame

NextSession ==
    \/ SessionConnectClient
    \/ SessionDisconnectClient
    \/ SessionSocketOpen
    \/ SessionSocketClose
    \/ SessionSocketError
    \/ SessionReconnectTimer

SpecSession == InitReg /\ [][NextSession]_vars

(* ------------------ SpecOrder: orders of the clients ------------------ *)
(* The registry with the trade store behind it.  connectClient is given   *)
(* any ClientAccount here, also one with an empty apiToken; the sockets   *)
(* open and close, and no reconnect delay elapses.                        *)

OrderConnectClient ==
    \E userId \in ClientIds, token \in BOOLEAN :
        /\ Len(apis) < MaxOrderConns
        /\ connectClient(userId, token)
        /\ call' = Call("connectClient", "", userId)
        /\ RegFrame

\* POST /api/clients/:clientId/trade
PlaceTradeForClient ==
    \E clientId \in ClientIds, req \in OrderRequests :
        /\ Len(trades) < MaxOrders
        /\ placeTradeForClient(clientId, req)
        /\ call' = [op |-> "placeTradeForClient", sym |-> req.symbol,
                    id |-> clientId, req |-> req]
        /\ UNCHANGED <<connVars, userVars, dbVars, hubVars>>

NextOrder ==
    \/ OrderConnectClient
    \/ DisconnectClient
    \/ RegSocketOpen
    \/ RegSocketClose
    \/ PlaceTradeForClient

SpecOrder == InitReg /\ [][NextOrder]_vars

(* --------------- SpecRoute: routing to the connectors ----------------- *)
(* The registry and the market-data routing.  No reconnect delay elapses. *)

RouteConnectClient ==
    \E userId \in ClientIds :
        /\ Len(apis) < MaxRouteConns
        /\ connectClient(userId, TRUE)
        /\ call' = Call("connectClient", "", userId)
        /\ RegFrame

SubscribeClientToMarketData ==
    \E clientId \in ClientIds, symbols \in SymbolLists :
        \E ids \in [1 .. Len(symbols) -> RouteIds] :
            /\ subscribeClientToMarketData(clientId, symbols, ids)
            /\ call' = [op |-> "subscribeClientToMarketData", sym |-> "",
                        id |-> clientId, symbols |-> symbols]
            /\ RegFrame

UnsubscribeClientFromMarketData ==
    \E clientId \in ClientIds, symbols \in SymbolLists :
        /\ unsubscribeClientFromMarketData(clientId, symbols)
        /\ call' = [op |-> "unsubscribeClientFromMarketData", sym |-> "",
                    id |-> clientId, symbols |-> symbols]
        /\ RegFrame

NextRoute ==
    \/ RouteConnectClient
    \/ RegSocketOpen
    \/ RegSocketClose
    \/ SubscribeClientToMarketData
    \/ UnsubscribeClientFromMarketData

SpecRoute == InitReg /\ [][NextRoute]_vars

(* ------------- SpecStale: orders with several connectors -------------- *)
(* The registry with more than one connector, also for one clientId, and  *)
(* the orders.  No reconnect delay elapses.                               *)

StaleConnectClient ==
    \E userId \in ClientIds :
        /\ Len(apis) < MaxStaleConns
        /\ connectClient(userId, TRUE)
        /\ call' = Call("connectClient", "", userId)
        /\ RegFrame

NextStale ==
    \/ StaleConnectClient
    \/ DisconnectClient
    \/ RegSocketOpen
    \/ RegSocketClose
    \/ PlaceTradeForClient

SpecStale == InitReg /\ [][NextStale]_vars

(* --------------- SpecBalance: the balances of the clients ------------- *)
(* The registry, the users of the store and the authorize replies of the  *)
(* broker.  No reconnect delay elapses.                                   *)

BalanceConnectClient ==
    \E userId \in ClientIds :
        /\ Len(apis) < MaxBalanceConns
        /\ connectClient(userId, TRUE)
        /\ call' = Call("connectClient", "", userId)
        /\ RegFrame

\* storage.createUser
CreateUser ==
    /\ Len(users) < MaxUsers
    /\ createUser
    /\ call' = Call("createUser", "", Len(users) + 1)
    /\ result' = "user"
    /\ UNCHANGED <<connVars, regVars, storeVars, dbVars, hubVars>>

\* The 'message' event of an open socket with an authorize reply: the
\* connector emits 'authorized', the listener runs updateClientBalance.
AuthorizeReply ==
    \E c \in 1 .. Len(apis), balance \in Reported :
        /\ \E i \in 1 .. Len(apis[c].sockets) : apis[c].sockets[i] = "OPEN"
        /\ apis' = [BeginAll(apis) EXCEPT
                       ![c] = handleMessage(@, Frame("object", "authorize",
                                                     balance = Missing,
                                                     balance # Missing))]
        /\ updateClientBalance(owner[c], balance)
        /\ call' = [op |-> "authorized", sym |-> "", id |-> c,
                    balance |-> balance]
        /\ result' = "none"
        /\ UNCHANGED <<owner, clientAPIs, activeConnections>>
        /\ UNCHANGED <<connVars, storeVars, dbVars, hubVars>>

NextBalance ==
    \/ BalanceConnectClient
    \/ DisconnectClient
    \/ RegSocketOpen
    \/ RegSocketClose
    \/ CreateUser
    \/ AuthorizeReply

SpecBalance == InitReg /\ [][NextBalance]_vars

(* ---------------------- SpecStore: the trade store -------------------- *)

\* The Partial<Trade> values updateTrade is given here.
UpdatePatches ==
    {[status |-> st] : st \in {"open", "won", "lost"}}

InitStore ==
    /\ NewMemStorage
    /\ NewDatabaseStorage
    /\ NewHub
    /\ NewClientManager
    /\ conn = NewDerivAPI(FALSE)
    /\ call = Call("new", "", NoId)
    /\ result = "none"

CreateTrade ==
    \E userId \in ClientIds, status \in InsertStatuses :
        /\ Len(trades) < MaxTrades
        /\ createTrade(InsertTrade(userId, status))
        /\ call' = Call("createTrade", "", currentTradeId)
        /\ result' = "trade"
        /\ StoreFrame

UpdateTrade ==
    \E tradeId \in 1 .. MaxTrades, updates \in UpdatePatches :
        /\ updateTrade(tradeId, updates)
        /\ call' = Call("updateTrade", "", tradeId)
        /\ result' = "void"
        /\ StoreFrame

\* The close route hands req.body's fields to closeTrade unchecked.
CloseTrade ==
    \E tradeId \in 1 .. MaxTrades, body \in CloseBodies :
        /\ closeTrade(tradeId, body[1], body[2], body[3])
        /\ call' = [op |-> "closeTrade", sym |-> "", id |-> tradeId,
                    body |-> body]
        /\ result' = "void"
        /\ StoreFrame

NextStore ==
    \/ CreateTrade
    \/ UpdateTrade
    \/ CloseTrade

SpecStore == InitStore /\ [][NextStore]_vars

(* ----------------- SpecTwin: the two stores side by side -------------- *)
(* Every call is made on MemStorage and on DatabaseStorage alike.         *)

TwinFrame ==
    /\ UNCHANGED <<connVars, regVars, userVars>>
    /\ UNCHANGED <<clients, readyState, inbox, sent, microtasks>>

TwinCreateTrade ==
    \E userId \in ClientIds, status \in InsertStatuses :
        /\ Len(trades) < MaxTwinTrades
        /\ createTrade(InsertTrade(userId, status))
        /\ db' = dbCreateTrade(db, InsertTrade(userId, status))
        /\ call' = Call("createTrade", "", currentTradeId)
        /\ result' = "trade"
        /\ UNCHANGED <<markets, marketIds>>
        /\ TwinFrame

TwinUpdateTrade ==
    \E tradeId \in 1 .. MaxTwinTrades, updates \in UpdatePatches :
        /\ updateTrade(tradeId, updates)
        /\ db' = dbUpdateTrade(db, tradeId, updates)
        /\ call' = Call("updateTrade", "", tradeId)
        /\ result' = "void"
        /\ UNCHANGED <<markets, marketIds>>
        /\ TwinFrame

TwinCloseTrade ==
    \E tradeId \in 1 .. MaxTwinTrades, body \in CloseBodies :
        /\ closeTrade(tradeId, body[1], body[2], body[3])
        /\ db' = dbCloseTrade(db, tradeId, body[1], body[2], body[3])
        /\ call' = [op |-> "closeTrade", sym |-> "", id |-> tradeId,
                    body |-> body]
        /\ result' = "void"
        /\ UNCHANGED <<markets, marketIds>>
        /\ TwinFrame

\* The tick handler's update, with the price MaxPrice.
TwinUpdateMarket ==
    \E symbol \in MarketSymbols, price \in {MaxPrice} :
        /\ markets' = updateMarket(markets, symbol, toFixed5(price))
        /\ db' = dbUpdateMarket(db, symbol, toFixed5(price))
        /\ call' = Call("updateMarket", symbol, price)
        /\ result' = "void"
        /\ UNCHANGED <<marketIds, storeVars>>
        /\ TwinFrame

\* result: what MemStorage returned; the insert of DatabaseStorage may throw.
TwinCreateMarket ==
    \E symbol \in MarketSymbols :
        /\ markets' = createMarket(markets, symbol)
        /\ marketIds' = createMarketId(marketIds, symbol)
        /\ db' = dbCreateMarket(db, symbol)
        /\ call' = Call("createMarket", symbol, NoId)
        /\ result' = "market"
        /\ UNCHANGED storeVars
        /\ TwinFrame

NextTwin ==
    \/ TwinCreateTrade
    \/ TwinUpdateTrade
    \/ TwinCloseTrade
    \/ TwinUpdateMarket
    \/ TwinCreateMarket

SpecTwin == InitStore /\ [][NextTwin]_vars

(* ------------------ SpecHub: downstream fan-out ----------------------- *)

InitHub ==
    /\ NewHub
    /\ NewMemStorage
    /\ NewDatabaseStorage
    /\ NewClientManager
    /\ conn = NewDerivAPI(FALSE)
    /\ call = Call("new", "", NoId)
    /\ result = "none"

\* wss.on('connection'): add the socket, start the markets read.
ObserverConnect ==
    \E o \in Observers :
        /\ getAllMarketsResolvesInTurn
        /\ readyState[o] = "NEW"
        /\ clients' = clients \cup {o}
        /\ readyState' = [readyState EXCEPT ![o] = "OPEN"]
        /\ microtasks' = Append(microtasks, [job |-> "markets", to |-> o])
        /\ call' = Call("connection", "", o)
        /\ sent' = NoMessage
        /\ UNCHANGED <<markets, marketIds, inbox>>
        /\ HubFrame

\* The .then callback of the connection handler's getAllMarkets().
SendSnapshot ==
    /\ microtasks # <<>>
    /\ Head(microtasks).job = "markets"
    /\ LET o == Head(microtasks).to
       IN  /\ inbox' = IF readyState[o] = "OPEN"
                       THEN [inbox EXCEPT ![o] = Append(@, "markets")]
                       ELSE inbox
           /\ sent' = IF readyState[o] = "OPEN"
                      THEN Message("markets", getAllMarkets(markets))
                      ELSE NoMessage
           /\ call' = Call("markets", "", o)
    /\ microtasks' = Tail(microtasks)
    /\ UNCHANGED <<markets, marketIds, clients, readyState>>
    /\ HubFrame

\* derivAPI.on('tick'): update the market, broadcast one price_update.
Tick ==
    \E symbol \in Symbols, quote \in TickQuotes :
        /\ getAllMarketsResolvesInTurn
        /\ InboxRoom
        /\ markets' = updateMarket(markets, symbol,
                                   marketUpdate(symbol, quote).currentPrice)
        /\ UNCHANGED marketIds
        /\ inbox' = broadcast(inbox, "price_update")
        /\ sent' = IF \E o \in clients : readyState[o] = "OPEN"
                   THEN Message("price_update", {marketUpdate(symbol, quote)})
                   ELSE NoMessage
        /\ call' = Call("tick", symbol, quote)
        /\ UNCHANGED <<clients, readyState, microtasks>>
        /\ HubFrame

\* The setInterval callback: start the markets read.
SimulateTimer ==
    /\ getAllMarketsResolvesInTurn
    /\ InboxRoom
    /\ microtasks' = Append(microtasks, [job |-> "simulate", to |-> 0])
    /\ call' = Call("interval", "", NoId)
    /\ sent' = NoMessage
    /\ UNCHANGED <<markets, marketIds, clients, readyState, inbox>>
    /\ HubFrame

\* Its .then callback: a random change per market, then one broadcast.
SimulatePrices ==
    /\ microtasks # <<>>
    /\ Head(microtasks).job = "simulate"
    /\ \E change \in [MarketSymbols -> {-1, 0, 1}] :
          /\ \A s \in MarketSymbols :
                IF markets[s] = NoMarket THEN change[s] = 0
                ELSE textValue(markets[s]) + change[s] \in Prices \cup TickQuotes
          /\ markets' = [s \in MarketSymbols |->
                updateMarket(markets, s,
                    toFixed5(textValue(markets[s]) + change[s]))[s]]
    /\ UNCHANGED marketIds
    /\ inbox' = broadcast(inbox, "price_update")
    /\ sent' = IF \E o \in clients : readyState[o] = "OPEN"
               THEN Message("price_update", getAllMarkets(markets'))
               ELSE NoMessage
    /\ microtasks' = Tail(microtasks)
    /\ call' = Call("simulate", "", NoId)
    /\ UNCHANGED <<clients, readyState>>
    /\ HubFrame

\* The downstream socket starts closing; it is still in the set.
ObserverClosing ==
    \E o \in Observers :
        /\ getAllMarketsResolvesInTurn
        /\ readyState[o] = "OPEN"
        /\ readyState' = [readyState EXCEPT ![o] = "CLOSING"]
        /\ call' = Call("closing", "", o)
        /\ sent' = NoMessage
        /\ UNCHANGED <<markets, marketIds, clients, inbox, microtasks>>
        /\ HubFrame

\* ws.on('close'): clients.delete(ws)
ObserverClose ==
    \E o \in Observers :
        /\ getAllMarketsResolvesInTurn
        /\ readyState[o] \in {"OPEN", "CLOSING"}
        /\ readyState' = [readyState EXCEPT ![o] = "CLOSED"]
        /\ clients' = clients \ {o}
        /\ call' = Call("close", "", o)
        /\ sent' = NoMessage
        /\ UNCHANGED <<markets, marketIds, inbox, microtasks>>
        /\ HubFrame

\* derivAPI.on('symbols'): a market is created for every listed symbol.
SymbolsDirectory ==
    \E listed \in SUBSET Symbols :
        /\ getAllMarketsResolvesInTurn
        /\ listed # {}
        /\ markets' = [s \in MarketSymbols |->
                          IF s \in listed THEN createMarket(markets, s)[s]
                          ELSE markets[s]]
        /\ \E listing \in Listings(listed) :
              marketIds' = createMarketIds(marketIds, listing)
        /\ call' = Call("symbols", "", Cardinality(listed))
        /\ sent' = NoMessage
        /\ UNCHANGED <<clients, readyState, inbox, microtasks>>
        /\ HubFrame

NextHub ==
    \/ ObserverConnect
    \/ SendSnapshot
    \/ Tick
    \/ SimulateTimer
    \/ SimulatePrices
    \/ ObserverClosing
    \/ ObserverClose

SpecHub == InitHub /\ [][NextHub]_vars

(* --------------- SpecMarkets: the market registry --------------------- *)
(* The fan-out with the instrument directory: the broker's answer to      *)
(* active_symbols creates markets, as often as the directory is read.     *)

NextMarkets ==
    \/ ObserverConnect
    \/ SendSnapshot
    \/ Tick
    \/ SimulateTimer
    \/ SimulatePrices
    \/ ObserverClosing
    \/ ObserverClose
    \/ SymbolsDirectory

SpecMarkets == InitHub /\ [][NextMarkets]_vars

(* --------------- SpecPublish: the routes that publish ----------------- *)
(* The downstream clients, the ticks, and the two routes that store and   *)
(* publish: POST /api/trades and POST /api/trades/:tradeId/close; the     *)
(* price simulation, the fourth broadcast, is part of SpecHub.  The       *)
(* awaits of the routes are on promises MemStorage has already resolved,  *)
(* so a request is handled to its broadcast before the next event.        *)

\* The message of a reply without a trade.
MarketNotFound == "Market not found"
TradeClosed == "Trade closed successfully"

\* The userId of the trading panel's tradeData.
DemoUserId == 1

\* POST /api/trades with the body the trading panel sends: userId 1, status
\* open; its stake is '1', 100 cents, and the payout of the message is in
\* cents.
PostTrade ==
    \E userId \in {DemoUserId}, symbol \in MarketSymbols :
        /\ getAllMarketsResolvesInTurn
        /\ InboxRoom
        /\ Len(trades) < MaxPublishTrades
        /\ call' = Call("POST /api/trades", symbol, userId)
        /\ UNCHANGED <<regVars, userVars, dbVars, markets, marketIds, clients, readyState,
                       microtasks>>
        /\ IF markets[symbol] = NoMarket
           THEN /\ result' = MarketNotFound
                /\ sent' = NoMessage
                /\ conn' = Begin(conn)
                /\ UNCHANGED <<storeVars, inbox>>
           ELSE /\ conn' = IF conn.isConnected /\ conn.apiToken
                           THEN placeTrade(Begin(conn), symbol)
                           ELSE Begin(conn)
                /\ createTrade([InsertTrade(userId, "open") EXCEPT !.symbol = symbol])
                /\ inbox' = broadcast(inbox, "trade_placed")
                /\ sent' = IF \E o \in clients : readyState[o] = "OPEN"
                           THEN Message("trade_placed",
                                        {[id |-> currentTradeId,
                                          userId |-> userId,
                                          symbol |-> symbol,
                                          payout |-> payoutOf(100)]})
                           ELSE NoMessage
                /\ result' = "trade"

\* The close requests of this specification: a winning close, and the
\* request without a body.
WinningCloseBodies == {body \in CloseBodies : body[3] \in {1, Missing}}

\* POST /api/trades/:tradeId/close
PostTradeClose ==
    \E tradeId \in 1 .. MaxPublishTrades, body \in WinningCloseBodies :
        /\ getAllMarketsResolvesInTurn
        /\ InboxRoom
        /\ closeTrade(tradeId, body[1], body[2], body[3])
        /\ inbox' = broadcast(inbox, "trade_closed")
        /\ sent' = IF \E o \in clients : readyState[o] = "OPEN"
                   THEN Message("trade_closed",
                                {[tradeId |-> tradeId, exitPrice |-> body[1],
                                  payout |-> body[2], profit |-> body[3]]})
                   ELSE NoMessage
        /\ call' = [op |-> "POST /api/trades/:tradeId/close", sym |-> "",
                    id |-> tradeId, body |-> body]
        /\ result' = TradeClosed
        /\ UNCHANGED <<connVars, regVars, userVars, dbVars, markets, marketIds, clients,
                       readyState, microtasks>>

NextPublish ==
    \/ ObserverConnect
    \/ SendSnapshot
    \/ ObserverClosing
    \/ ObserverClose
    \/ Tick
    \/ PostTrade
    \/ PostTradeClose

SpecPublish == InitHub /\ [][NextPublish]_vars

(* ------------------ SpecPayout: the potential payout ------------------ *)
(* A stake of whole cents is entered; the route of POST /api/trades and   *)
(* the trading panel each compute the payout from it.                    *)

Stakes == 1 .. MaxStake

InitPayout ==
    /\ \E stake \in Stakes : call = Call("stake", "", stake)
    /\ result = "none"
    /\ conn = NewDerivAPI(FALSE)
    /\ NewClientManager
    /\ NewMemStorage
    /\ NewDatabaseStorage
    /\ NewHub

\* POST /api/trades: the payout of the trade_placed message and the reply.
TradePlacedPayout ==
    /\ call.op = "stake"
    /\ call' = Call("trade_placed", "", call.id)
    /\ result' = [payout |-> payoutOf(call.id), profit |-> Null]
    /\ UNCHANGED <<connVars, regVars, storeVars, userVars, dbVars, hubVars>>

\* TradingPanel: const potentialPayout = ...
PotentialPayout ==
    /\ call.op = "stake"
    /\ call' = Call("potentialPayout", "", call.id)
    /\ result' = [payout |-> payoutOf(call.id), profit |-> Null]
    /\ UNCHANGED <<connVars, regVars, storeVars, userVars, dbVars, hubVars>>

\* TradingPanel: const potentialProfit = ..., from the text of the payout.
PotentialProfit ==
    /\ call.op = "potentialPayout"
    /\ call' = Call("potentialProfit", "", call.id)
    /\ result' = [result EXCEPT !.profit = profitOf(result.payout, call.id)]
    /\ UNCHANGED <<connVars, regVars, storeVars, userVars, dbVars, hubVars>>

NextPayout ==
    \/ TradePlacedPayout
    \/ PotentialPayout
    \/ PotentialProfit

SpecPayout == InitPayout /\ [][NextPayout]_vars

(* ------------------------- claims on SpecConn ------------------------- *)

AllSocketsClosed ==
    \A i \in 1 .. Len(conn.sockets) : conn.sockets[i] = "CLOSED"

\* C1: the close event of a socket that disconnect() closed schedules no
\* reconnect timer and does not increment reconnectAttempts.
C1_DisconnectSkipsRetry ==
    [][\A i \in 1 .. Len(conn.sockets) :
          (conn.sockets[i] = "CLOSING" /\ conn'.sockets[i] = "CLOSED")
              => /\ conn'.timers = conn.timers
                 /\ conn'.reconnectAttempts = conn.reconnectAttempts]_vars

\* C3: max_reconnect_reached has been emitted once exactly when the closure
\* after the fifth reconnect attempt (the sixth consecutive closure with no
\* open in between) has been handled, never more than once, and then no
\* timer is pending and no socket is left that could open.
C3_ExhaustedExactlyOnce ==
    /\ conn.exhausted = (IF conn.closes > maxReconnectAttempts THEN 1 ELSE 0)
    /\ conn.closes <= maxReconnectAttempts + 1
    /\ conn.exhausted = 1 <=>
           (conn.reconnectAttempts = maxReconnectAttempts
              /\ conn.timers = 0 /\ AllSocketsClosed /\ conn.sockets # <<>>)

C3_Witness ==
    /\ conn.exhausted = 1
    /\ conn.reconnectAttempts = maxReconnectAttempts
    /\ call.op = "close"

\* C4: every step in which a socket opens leaves reconnectAttempts at 0, and
\* the closure of an open socket is then retried as attempt 1 with one timer.
C4_OpenResetsAttempts ==
    [][\A i \in 1 .. Len(conn.sockets) :
          /\ (conn.sockets[i] = "CONNECTING" /\ conn'.sockets[i] = "OPEN")
                 => conn'.reconnectAttempts = 0
          /\ (conn.sockets[i] = "OPEN" /\ conn'.sockets[i] = "CLOSED")
                 => /\ conn'.reconnectAttempts = 1
                    /\ conn'.timers = conn.timers + 1]_vars

\* a reconnection (not the first socket) has just opened after a failure
C4_Witness ==
    /\ call.op = "open"
    /\ call.id > 1
    /\ conn.sockets[call.id] = "OPEN"
    /\ conn.reconnectAttempts = 0

NoDuplicateIds(d) ==
    \A s1, s2 \in Symbols :
        (s1 # s2 /\ d.subscriptions[s1] # NoId)
            => d.subscriptions[s1] # d.subscriptions[s2]

\* C5: after every step no two symbols are mapped to the same req_id, and a
\* subscribe never records an id that this connector has issued before.
C5_UniqueCorrelationIds ==
    [][/\ NoDuplicateIds(conn')
       /\ call'.op = "subscribeToTicks" => call'.id \notin conn.issued]_vars

\* C6: after unsubscribe(symbol) the table has no entry for symbol; an
\* existing entry costs exactly one forget command with its id, and without
\* an entry nothing is sent and the table is unchanged.
C6_UnsubscribeRemovesEntry ==
    [][call'.op = "unsubscribeFromTicks" =>
          LET old == conn.subscriptions[call'.sym]
          IN  /\ conn'.subscriptions[call'.sym] = NoId
              /\ old # NoId =>
                     /\ conn'.log = <<Sent("forget", "", old)>>
                     /\ \A s \in Symbols \ {call'.sym} :
                            conn'.subscriptions[s] = conn.subscriptions[s]
              /\ old = NoId =>
                     /\ conn'.log = <<>>
                     /\ conn'.subscriptions = conn.subscriptions]_vars

\* The transport of this.ws is open: the only readiness send() looks at.
TransportOpen(d) == d.ws # 0 /\ d.sockets[d.ws] = "OPEN"

\* C12: placeTrade on a connector that has a credential but whose transport
\* is not open fails with Unauthorized instead of reporting success.
C12_PlaceOrderNeedsReady ==
    [][(call'.op = "placeTrade" /\ conn.apiToken /\ ~TransportOpen(conn))
          => result' = Unauthorized]_vars

\* The sockets of d that are connecting or open, handlers attached.
LiveSockets(d) ==
    {i \in 1 .. Len(d.sockets) : d.sockets[i] \in {"CONNECTING", "OPEN"}}

\* C13: disconnect() leaves no reconnect timer pending and no transport
\* connecting or open, so that no connect() is performed after it and the
\* connector stays disconnected.
C13_DisconnectCancelsTimer ==
    [][call'.op = "disconnect"
          => /\ conn'.timers = 0
             /\ LiveSockets(conn') = {}]_vars

\* C22: subscribeToTicks for a symbol that already has an entry in the table
\* keeps the entry's id and writes no second subscribe command.
C22_DuplicateSubscribeNoOp ==
    [][(call'.op = "subscribeToTicks" /\ conn.subscriptions[call'.sym] # NoId)
          => /\ conn'.subscriptions = conn.subscriptions
             /\ conn'.log = <<>>]_vars

\* C23: subscribeToTicks on a connector whose transport is not open records
\* no entry in the table and writes no subscribe command.
C23_SubscribeNeedsConnected ==
    [][(call'.op = "subscribeToTicks" /\ ~TransportOpen(conn))
          => /\ conn'.subscriptions = conn.subscriptions
             /\ conn'.log = <<>>]_vars

\* C30: after disconnect(), and after the close of the connector's
\* transport, the subscription table is empty.
C30_TeardownClearsSubscriptions ==
    [][call'.op \in {"disconnect", "close"}
          => \A s \in Symbols : conn'.subscriptions[s] = NoId]_vars

\* The delays of the spec, in milliseconds, for attempts 1 to 5.
BackoffDelays == <<1000, 2000, 4000, 8000, 16000>>

\* C35: every step that schedules a reconnect has incremented
\* reconnectAttempts to some k in 1..5 and schedules exactly one timer, with
\* delay 1000 * 2^(k-1) ms; and reconnectAttempts is within 0..5 after
\* every step.
C35_BackoffDoubles ==
    [][/\ conn'.reconnectAttempts \in 0 .. 5
       /\ LET timersSet == {j \in 1 .. Len(conn'.log) :
                               conn'.log[j].kind = "timer"}
          IN  /\ Cardinality(timersSet) <= 1
              /\ Cardinality(timersSet) = conn'.timers - conn.timers
                     \/ call'.op = "timer"
              /\ \A j \in timersSet :
                     /\ conn'.reconnectAttempts = conn.reconnectAttempts + 1
                     /\ conn'.reconnectAttempts \in 1 .. 5
                     /\ conn'.log[j].id = BackoffDelays[conn'.reconnectAttempts]
       /\ (call'.op = "close" /\ conn.reconnectAttempts < 5)
             => \E j \in 1 .. Len(conn'.log) : conn'.log[j].kind = "timer"]_vars

\* the fifth consecutive attempt has just been scheduled, 16 s ahead
C35_Witness ==
    /\ call.op = "close"
    /\ conn.reconnectAttempts = 5
    /\ \E j \in 1 .. Len(conn.log) : conn.log[j] = Scheduled(16000)

(* ------------------------- claims on SpecRetry ------------------------ *)

\* A close has just been handled with budget left: a retry is scheduled.
RetryScheduled ==
    /\ call.op = "close"
    /\ \E j \in 1 .. Len(conn.log) : conn.log[j].kind = "timer"
    /\ Len(conn.sockets) < MaxRetrySockets

\* The timer callback has just called connect(): a new socket is connecting.
RetryMade ==
    /\ call.op = "timer"
    /\ conn.ws = Len(conn.sockets)
    /\ conn.sockets[conn.ws] = "CONNECTING"

RECURSIVE EventsOf(_)
EventsOf(log) ==
    IF log = <<>> THEN <<>>
    ELSE IF Head(log).kind = "emit"
         THEN <<Head(log).name>> \o EventsOf(Tail(log))
         ELSE EventsOf(Tail(log))

\* A frame that is no JSON object, or a tick frame without its tick member.
Malformed(frame) ==
    frame.json # "object" \/ (frame.msg_type = "tick" /\ ~frame.payload)

\* C25: the step that handles a malformed frame (text that is no JSON, null,
\* or a frame whose listener throws) leaves isConnected, reconnectAttempts,
\* the subscription table, this.ws, every socket and the pending timers as
\* they were and writes nothing to the transport; and every frame with a
\* known msg_type is handed to its listeners, whatever was dropped before.
C25_MalformedFrameDropped ==
    [][call'.op = "message" =>
          /\ Malformed(call'.frame) =>
                 /\ conn'.isConnected = conn.isConnected
                 /\ conn'.reconnectAttempts = conn.reconnectAttempts
                 /\ conn'.subscriptions = conn.subscriptions
                 /\ conn'.ws = conn.ws
                 /\ conn'.sockets = conn.sockets
                 /\ conn'.timers = conn.timers
                 /\ \A j \in 1 .. Len(conn'.log) : conn'.log[j].kind # "send"
          /\ (call'.frame.json = "object" /\ call'.frame.msg_type \in MsgTypes)
                 => EventsOf(conn'.log) = <<EventOf(call'.frame.msg_type)>>]_vars

\* a well-formed tick is handed on after two frames were dropped, on a
\* connector that is still connected and still holds its subscription
C25_Witness ==
    /\ call.op = "message"
    /\ call.frame = Frame("object", "tick", FALSE, TRUE)
    /\ conn.log = <<Emitted("tick")>>
    /\ conn.dropped = 2
    /\ conn.isConnected
    /\ TransportOpen(conn)
    /\ \E s \in Symbols : conn.subscriptions[s] # NoId

\* C26: the step that handles a frame emits at most one event, and for a
\* frame with an error member that event is api_error.
C26_ErrorFramesAreErrors ==
    [][call'.op = "message" =>
          /\ Len(EventsOf(conn'.log)) <= 1
          /\ (call'.frame.json = "object" /\ call'.frame.error)
                 => EventsOf(conn'.log) = <<"api_error">>]_vars

(* ------------------------- claims on SpecDial ------------------------- *)

\* C14: connect(), called by the owner or by a reconnect timer while a
\* transport is connecting or open, creates no socket and keeps this.ws, and
\* a connector never has more than one live transport.
C14_ConnectIdempotent ==
    [][/\ (call'.op \in {"connect", "timer"} /\ LiveSockets(conn) # {})
             => /\ conn'.sockets = conn.sockets
                /\ conn'.ws = conn.ws
       /\ Cardinality(LiveSockets(conn')) <= 1]_vars

(* -------------------------- claims on SpecReg ------------------------- *)

\* A DerivAPI object that can still act: a socket not yet closed, or a timer.
Live(d) ==
    \/ d.timers > 0
    \/ \E i \in 1 .. Len(d.sockets) : d.sockets[i] # "CLOSED"

\* C2: connectClient for a clientId whose Connector is registered and active
\* fails with AlreadyConnected, constructs nothing and leaves the registry
\* as it was; no clientId ever has two live Connectors.
C2_RegisterRejectsDuplicate ==
    [][/\ (call'.op = "connectClient"
             /\ clientAPIs[call'.id] # 0
             /\ activeConnections[call'.id] = "true")
            => /\ result' = "AlreadyConnected"
               /\ UNCHANGED regVars
       /\ \A u \in ClientIds :
             Cardinality({c \in 1 .. Len(apis') :
                            owner'[c] = u /\ Live(apis'[c])}) <= 1]_vars

\* C36: every clientId isClientConnected answers true for, and every id
\* getAllConnectedClients returns, has a connector in the registry, also
\* when events of a removed connector arrive after disconnectClient.
C36_ConnectedImpliesRegistered ==
    /\ \A u \in ClientIds : isClientConnected(u) => clientAPIs[u] # 0
    /\ \A u \in getAllConnectedClients : clientAPIs[u] # 0

(* ------------------------ claims on SpecSession ----------------------- *)

\* C24: the step that handles the 'error' event of a connector's socket
\* throws nothing and leaves the process running; the other connectors,
\* the registry's entries of the other clients, the trades and the
\* downstream clients are as they were.
C24_TransportFaultIsolated ==
    [][call'.op = "error" =>
          /\ result' # Uncaught
          /\ \A k \in 1 .. Len(apis) :
                 k # call'.id => apis'[k] = Begin(apis[k])
          /\ \A u \in ClientIds \ {owner[call'.id]} :
                 /\ clientAPIs'[u] = clientAPIs[u]
                 /\ activeConnections'[u] = activeConnections[u]
          /\ UNCHANGED <<storeVars, hubVars>>]_vars

\* C27: connectClient returns true exactly when the transport of the new
\* connector has been opened.
C27_RegisterReturnsOutcome ==
    [][call'.op = "connectClient" =>
          (result' = "true" <=> TransportOpen(apis'[clientAPIs'[call'.id]]))]_vars

\* C29: once a connector has emitted max_reconnect_reached, the registry
\* does not hold it for its clientId, and the client is not connected.
C29_ExhaustionDestroysSession ==
    \A c \in 1 .. Len(apis) :
        apis[c].exhausted > 0 =>
            /\ clientAPIs[owner[c]] # c
            /\ activeConnections[owner[c]] # "true"

(* -------------------------- claims on SpecTwin ------------------------ *)

\* C32: after every sequence of createTrade, closeTrade, updateTrade,
\* updateMarket and createMarket calls made on both stores, getTradesByUser,
\* getOpenTradesByUser and getMarket return the same from MemStorage and
\* from DatabaseStorage, for every user and every symbol.
C32_StoresAgree ==
    /\ \A u \in ClientIds :
           /\ getTradesByUser(u) = dbGetTradesByUser(db, u)
           /\ getOpenTradesByUser(u) = dbGetOpenTradesByUser(db, u)
    /\ \A s \in MarketSymbols : markets[s] = dbGetMarket(db, s)

(* ------------------------ claims on SpecBalance ----------------------- *)

\* C31: after an 'authorized' event that reports balance b for a registered
\* client, getClientBalance of that client returns b.
C31_AuthorizedBalanceCached ==
    (/\ call.op = "authorized"
     /\ call.balance \in Balances
     /\ clientAPIs[owner[call.id]] = call.id)
        => /\ getClientBalance(owner[call.id]) # NullBalance
           /\ textValue(getClientBalance(owner[call.id])) = call.balance

(* ------------------------- claims on SpecRoute ------------------------ *)

\* No object of the registry wrote to its transport in the last step.
NothingSent(a) ==
    \A k \in 1 .. Len(a) :
        \A j \in 1 .. Len(a[k].log) : a[k].log[j].kind # "send"

\* The symbols of a symbols array.
Listed(symbols) == {symbols[k] : k \in DOMAIN symbols}

\* Object d wrote the command name for symbol sym with request id id.
Wrote(d, name, sym, id) ==
    \E k \in 1 .. Len(d.log) : d.log[k] = Sent(name, sym, id)

C37_TradeOnlyIfBuyWritten ==
    [][(call'.op = "placeTradeForClient" /\ Len(trades') > Len(trades)) =>
          LET c == clientAPIs[call'.id]
          IN  /\ c # 0
              /\ TransportOpen(apis[c])
              /\ \E k \in 1 .. Len(apis'[c].log) :
                     apis'[c].log[k] = Sent("buy", call'.sym, NoId)]_vars

(* ------------------------- claims on SpecOrder ------------------------ *)

\* C11: an order routed to a registered, active connector that has no
\* credential fails with Unauthorized; no buy command is sent and no Trade
\* is created.
C11_NoCredentialNoTrade ==
    [][(/\ call'.op = "placeTradeForClient"
        /\ clientAPIs[call'.id] # 0
        /\ activeConnections[call'.id] = "true"
        /\ ~apis[clientAPIs[call'.id]].apiToken)
          => /\ result' = Unauthorized
             /\ NothingSent(apis')
             /\ trades' = trades
             /\ currentTradeId' = currentTradeId]_vars

\* the order of a client whose connector is open and active, but tokenless
C11_Witness ==
    /\ call.op = "placeTradeForClient"
    /\ result = Unauthorized
    /\ activeConnections[call.id] = "true"
    /\ TransportOpen(apis[clientAPIs[call.id]])
    /\ ~apis[clientAPIs[call.id]].apiToken

\* C15: disconnectClient for a registered clientId disconnects its connector
\* and leaves neither a connector nor an active flag for clientId, the other
\* clients' entries being kept; for an unregistered clientId it changes no
\* entry, no flag and no socket.
C15_UnregisterRemovesSession ==
    [][call'.op = "disconnectClient" =>
          LET id == call'.id
              c == clientAPIs[id]
          IN  /\ \A u \in ClientIds \ {id} :
                     /\ clientAPIs'[u] = clientAPIs[u]
                     /\ activeConnections'[u] = activeConnections[u]
              /\ \A k \in 1 .. Len(apis) :
                     k # c => /\ apis'[k].sockets = apis[k].sockets
                              /\ apis'[k].ws = apis[k].ws
              /\ Len(apis') = Len(apis)
              /\ c # 0 =>
                     /\ apis'[c].ws = 0
                     /\ apis[c].ws # 0 =>
                            apis'[c].sockets[apis[c].ws]
                                \notin {"CONNECTING", "OPEN"}
                     /\ clientAPIs'[id] = 0
                     /\ activeConnections'[id] = "none"
              /\ c = 0 =>
                     /\ clientAPIs' = clientAPIs
                     /\ activeConnections' = activeConnections]_vars

\* an open, active session has just been unregistered; its socket is closing
C15_Witness ==
    /\ call.op = "disconnectClient"
    /\ clientAPIs[call.id] = 0
    /\ activeConnections[call.id] = "none"
    /\ \E c \in 1 .. Len(apis) :
          /\ owner[c] = call.id
          /\ apis[c].ws = 0
          /\ apis[c].isConnected
          /\ apis[c].sockets = <<"CLOSING">>

\* C16: an order for a clientId that has no registered connector, or whose
\* active flag is not true, fails with NotConnected; no command is sent and
\* no Trade is created.
C16_RouteOrderNeedsSession ==
    [][(/\ call'.op = "placeTradeForClient"
        /\ \/ clientAPIs[call'.id] = 0
           \/ activeConnections[call'.id] # "true")
          => /\ result' = NotConnected
             /\ NothingSent(apis')
             /\ trades' = trades
             /\ currentTradeId' = currentTradeId]_vars

\* the refused order of a client whose connector is registered but whose
\* flag is false, after an earlier order was accepted
C16_Witness ==
    /\ call.op = "placeTradeForClient"
    /\ result = NotConnected
    /\ clientAPIs[call.id] # 0
    /\ activeConnections[call.id] = "false"
    /\ trades # <<>>

\* The unit names the Trade table stores for the units of a TradeRequest.
UnitName(u) ==
    CASE u = "m" -> "minutes" [] u = "h" -> "hours" [] u = "d" -> "days"

\* C17: an accepted order appends exactly one Trade, with userId = clientId,
\* status open, the requested symbol, direction, stake and duration, and
\* null exitPrice, payout, profit and closedAt; the trades stored before
\* are as they were.
C17_AcceptedOrderPersisted ==
    [][(call'.op = "placeTradeForClient" /\ result' = "trade") =>
          /\ Len(trades') = Len(trades) + 1
          /\ SubSeq(trades', 1, Len(trades)) = trades
          /\ LET t == trades'[Len(trades')]
                 req == call'.req
             IN  /\ t.userId = call'.id
                 /\ t.id \notin {trades[i].id : i \in 1 .. Len(trades)}
                 /\ t.status = "open"
                 /\ t.symbol = req.symbol
                 /\ t.tradeType = req.tradeType
                 /\ t.stake = req.amount
                 /\ t.duration = req.duration
                 /\ t.durationType = UnitName(req.durationType)
                 /\ t.exitPrice = Null /\ t.payout = Null
                 /\ t.profit = Null /\ t.closedAt = Null]_vars

\* a second order has been accepted, for another symbol than the first
C17_Witness ==
    /\ call.op = "placeTradeForClient"
    /\ result = "trade"
    /\ Len(trades) = 2
    /\ trades[2].userId = call.id
    /\ trades[2].symbol = call.sym
    /\ trades[1].symbol # call.sym

(* -------------------------- claims on SpecHub ------------------------- *)

\* C7: the first message a downstream client receives is the markets
\* snapshot: no price_update reaches it before.
C7_SnapshotBeforeUpdates ==
    \A o \in Observers : inbox[o] # <<>> => Head(inbox[o]) = "markets"

\* a client that joined after an earlier broadcast has both messages
C7_Witness ==
    \E o, p \in Observers :
        /\ o # p
        /\ inbox[p] = <<"markets", "price_update">>
        /\ inbox[o] = <<"markets", "price_update">>
        /\ call.op \in {"tick", "simulate"}

OpenObservers == {o \in clients : readyState[o] = "OPEN"}

\* C18: the step that handles a tick for symbol s appends one price_update
\* to the inbox of every downstream client that is in the set and open, and
\* the message carries exactly one row: symbol s with the price of the tick.
C18_TickBroadcastToAllOpen ==
    [][call'.op = "tick" =>
          /\ \A o \in OpenObservers :
                 inbox'[o] = Append(inbox[o], "price_update")
          /\ OpenObservers # {} =>
                 /\ sent'.type = "price_update"
                 /\ \E row \in sent'.data :
                        /\ sent'.data = {row}
                        /\ row.symbol = call'.sym
                        /\ textValue(row.currentPrice) = call'.id]_vars

\* a tick has just reached both clients, after their snapshots
C18_Witness ==
    /\ call.op = "tick"
    /\ sent = Message("price_update",
                      {Row(call.sym, DecimalText(10855, 4))})
    /\ \A o \in 1 .. 2 :
          /\ o \in clients
          /\ readyState[o] = "OPEN"
          /\ inbox[o] = <<"markets", "price_update">>

(* ------------------------ claims on SpecMarkets ----------------------- *)

\* C19: the step that handles a tick with quote q for symbol s leaves the
\* market s with currentPrice = q written with exactly five decimals.
C19_TickPriceFiveDecimals ==
    [][call'.op = "tick" => markets'[call'.sym] = toFixed5(call'.id)]_vars

\* C38: the price_update a tick step sends has a row whose symbol is a
\* market of the registry after the step, and the currentPrice stored for
\* that market is the one of the row.
C38_TickBroadcastMatchesStore ==
    [][(call'.op = "tick" /\ sent'.type = "price_update") =>
          \A row \in sent'.data :
              /\ markets'[row.symbol] # NoMarket
              /\ markets'[row.symbol] = row.currentPrice]_vars

\* C40: no two markets of the registry have the same id, and a market has
\* an id exactly when it has a price: one Market per symbol.
C40_MarketIdsUnique ==
    /\ \A s, t \in MarketSymbols :
          (s # t /\ marketIds[s] # 0) => marketIds[s] # marketIds[t]
    /\ \A s \in MarketSymbols : (marketIds[s] # 0) <=> (markets[s] # NoMarket)

(* ------------------------ claims on SpecPublish ----------------------- *)

\* C28: in every step, a downstream client whose inbox grows was in the set
\* and open when the step began, and what it received is the message of
\* that step; a client that has closed is not in the set.  So a price_update,
\* trade_placed or trade_closed reaches nobody who closed before or
\* connected after.
C28_BroadcastOnlyToOpenObservers ==
    [][\A o \in Observers :
          /\ inbox'[o] # inbox[o] =>
                 /\ o \in clients
                 /\ readyState[o] = "OPEN"
                 /\ inbox'[o] = Append(inbox[o], sent'.type)
          /\ readyState'[o] = "CLOSED" => o \notin clients']_vars

\* trade_closed has just reached the one open client, which connected after
\* the trade was placed; the client that closed before has neither message
C28_Witness ==
    /\ call.op = "POST /api/trades/:tradeId/close"
    /\ sent.type = "trade_closed"
    /\ trades # <<>>
    /\ \E o, p \in Observers :
          /\ readyState[o] = "CLOSED"
          /\ o \notin clients
          /\ inbox[o] = <<"markets">>
          /\ readyState[p] = "OPEN"
          /\ inbox[p] = <<"markets", "trade_closed">>

\* C39: a close request for a tradeId that storage does not hold reports no
\* success, reaches no downstream client and changes no trade.
C39_CloseUnknownTradeRefused ==
    [][(call'.op = "POST /api/trades/:tradeId/close"
          /\ call'.id \notin DOMAIN trades)
         => /\ result' # TradeClosed
            /\ inbox' = inbox
            /\ sent' = NoMessage
            /\ trades' = trades]_vars

(* ------------------------ claims on SpecPayout ------------------------ *)

\* C20: for every stake of whole cents the payout, computed by the route or
\* by the panel, is stake * 1.85 rounded to the cent, halves upwards, and
\* the panel's profit is that payout less the stake.
C20_PayoutStandardRounding ==
    call.op \in {"trade_placed", "potentialPayout", "potentialProfit"} =>
        /\ result.payout = (call.id * 185 + 50) \div 100
        /\ call.op = "potentialProfit" =>
               result.profit = result.payout - call.id

(* ------------------------- claims on SpecStore ------------------------ *)

Closed(t) == t.status \in {"won", "lost"}

\* C8: a closeTrade call on a trade that is already won or lost leaves its
\* status, exitPrice and profit as they were.
C8_CloseTradeIdempotent ==
    [][(call'.op = "closeTrade" /\ call'.id \in DOMAIN trades
          /\ Closed(trades[call'.id]) /\ trades[call'.id].closedAt # Null)
         => /\ trades'[call'.id].status = trades[call'.id].status
            /\ trades'[call'.id].exitPrice = trades[call'.id].exitPrice
            /\ trades'[call'.id].profit = trades[call'.id].profit]_vars

Absent(x) == x \in {Null, Missing}

\* C9: every open trade has exitPrice, payout, profit and closedAt all null,
\* and every won or lost trade has all four set.
C9_ClosingFieldsMatchStatus ==
    \A id \in DOMAIN trades :
        LET t == trades[id]
        IN  /\ t.status = "open" =>
                   /\ t.exitPrice = Null /\ t.payout = Null
                   /\ t.profit = Null /\ t.closedAt = Null
            /\ Closed(t) =>
                   /\ ~Absent(t.exitPrice) /\ ~Absent(t.payout)
                   /\ ~Absent(t.profit) /\ ~Absent(t.closedAt)

\* C10: a status changes only from open to won or lost; a won or lost trade
\* keeps its status in every step.
C10_CloseIsOneWay ==
    [][\A id \in DOMAIN trades :
          /\ (Closed(trades[id]) /\ trades[id].closedAt # Null)
                => trades'[id].status = trades[id].status
          /\ (trades[id].status = "open" /\ trades'[id].status # "open")
                => Closed(trades'[id])]_vars

\* C21: closeTrade(tradeId, exitPrice, payout, profit) on an existing open
\* trade leaves it, in that one step, with status won if profit is a number
\* above zero and lost otherwise, with exitPrice, payout and profit as given
\* and with closedAt set; its other fields and the other trades are kept.
C21_StatusFromProfitSign ==
    [][(/\ call'.op = "closeTrade"
        /\ call'.id \in DOMAIN trades
        /\ trades[call'.id].status = "open") =>
          LET old == trades[call'.id]
              new == trades'[call'.id]
              profit == call'.body[3]
          IN  /\ new.status = IF profit \notin {Missing, Null, NaN} /\ profit > 0
                              THEN "won" ELSE "lost"
              /\ new.exitPrice = call'.body[1]
              /\ new.payout = call'.body[2]
              /\ new.profit = profit
              /\ new.closedAt # Null
              /\ \A f \in DOMAIN old \ {"status", "exitPrice", "payout",
                                         "profit", "closedAt"} :
                     new[f] = old[f]
              /\ \A id \in DOMAIN trades \ {call'.id} :
                     trades'[id] = trades[id]]_vars

\* a trade created open has just been closed with a profit of zero: lost
C21_Witness ==
    /\ call.op = "closeTrade"
    /\ call.id \in DOMAIN trades
    /\ call.body[3] = 0
    /\ trades[call.id].status = "lost"
    /\ trades[call.id].profit = 0
    /\ trades[call.id].closedAt # Null

====
